---- MODULE Spec2Model ----
(***************************************************************************)
(* Model of the rate-limited order writer of cosmos-go-rate-limiting       *)
(* (src/main.go): configuration in init(), the /orders handler Add, the    *)
(* query observer OrderInsertErrorLogger, and the attempt/backoff loop     *)
(* (Error Classifier, Retry Policy, Write Orchestrator) that the handler   *)
(* drives through the session it configures.  The loop and the policy are  *)
(* imported packages whose source is not part of src/; they are modelled   *)
(* from sections 4.1, 4.2 and 4.4 of the specification.                    *)
(***************************************************************************)
EXTENDS Integers, Sequences, FiniteSets, TLC

(* ------------------------------ bounds -------------------------------- *)

\* longest error text, in fragments, given to the classifier on its own
MaxMsgLen == 3

\* MAX_RETRIES is drawn from "", "0" .. MaxEnvRetries, "-1" and a non-number
MaxEnvRetries == 2

\* largest server-suggested retry-after interval carried by a Throttled error
MaxRetryAfter == 2

(* --------------------------- plain helpers ---------------------------- *)

Min(a, b) == IF a <= b THEN a ELSE b

RECURSIVE Pow2(_)
Pow2(n) == IF n <= 0 THEN 1 ELSE 2 * Pow2(n - 1)

Digits == <<"0", "1", "2", "3", "4", "5", "6", "7", "8", "9">>

IsDigit(c) == \E i \in 1..10 : Digits[i] = c

DigitVal(c) == (CHOOSE i \in 1..10 : Digits[i] = c) - 1

\* decimal text of a natural number, as a sequence of characters
RECURSIVE Itoa(_)
Itoa(n) == IF n < 10 THEN <<Digits[n + 1]>> ELSE Itoa(n \div 10) \o <<Digits[(n % 10) + 1]>>

(* ------------------------- init(): configuration ---------------------- *)

\* strconv.ParseBool: the accepted spellings, anything else is an error
ParseBool(s) ==
    IF s \in {"1", "t", "T", "TRUE", "true", "True"} THEN [ok |-> TRUE, val |-> TRUE]
    ELSE IF s \in {"0", "f", "F", "FALSE", "false", "False"} THEN [ok |-> TRUE, val |-> FALSE]
    ELSE [ok |-> FALSE, val |-> FALSE]

RECURSIVE DigitsValue(_)
DigitsValue(s) ==
    IF s = <<>> THEN 0
    ELSE 10 * DigitsValue(SubSeq(s, 1, Len(s) - 1)) + DigitVal(s[Len(s)])

\* strconv.Atoi on a sequence of characters: optional sign, then digits
Atoi(s) ==
    LET signed == Len(s) > 0 /\ s[1] \in {"+", "-"}
        body   == IF signed THEN Tail(s) ELSE s
    IN  IF body = <<>> \/ \E i \in 1..Len(body) : ~IsDigit(body[i])
        THEN [ok |-> FALSE, val |-> 0]
        ELSE [ok |-> TRUE,
              val |-> IF signed /\ s[1] = "-" THEN 0 - DigitsValue(body) ELSE DigitsValue(body)]

\* USE_RETRY_POLICY defaults to "true" when unset
UseRetryEnvVar(env) == IF env = "" THEN "true" ELSE env

\* MAX_RETRIES defaults to "5" when unset
MaxRetriesEnvVar(env) == IF env = <<>> THEN <<"5">> ELSE env

NoRetryPolicy == [installed |-> FALSE, maxRetries |-> 0]

\* retry.NewCosmosRetryPolicy(numRetries): the policy keeps the value it is given
NewCosmosRetryPolicy(n) == [installed |-> TRUE, maxRetries |-> n]

ClusterRetryPolicy_Inverted(use, n) == IF use THEN NoRetryPolicy ELSE NewCosmosRetryPolicy(n)

ClusterRetryPolicy_Always(use, n) == NewCosmosRetryPolicy(IF use THEN n ELSE 5)

ClusterRetryPolicy_Default(use, n) == IF use THEN NewCosmosRetryPolicy(5) ELSE NoRetryPolicy

ClusterRetryPolicy_OffByOne(use, n) == IF use THEN NewCosmosRetryPolicy(n + 1) ELSE NoRetryPolicy

\* clusterConfig.RetryPolicy: set only when useRetryPolicy is true
ClusterRetryPolicy(use, n) == IF use THEN NewCosmosRetryPolicy(n) ELSE NoRetryPolicy

(* --------------------- raw failures and their text -------------------- *)

\* strings.Contains on an error text, kept as a sequence of fragments
Contains(msg, fragment) == \E i \in 1..Len(msg) : msg[i] = fragment

NoHint == 0 - 1

NoErr == [msg |-> <<>>, retryAfter |-> NoHint]

ThrottledErr(h) == [msg |-> <<"Request rate is large", "TooManyRequests (429)">>, retryAfter |-> h]

TimeoutErr == [msg |-> <<"no response received within", "timeout", "period">>, retryAfter |-> NoHint]

UnavailableErr == [msg |-> <<"no hosts available in the pool">>, retryAfter |-> NoHint]

OtherErr == [msg |-> <<"invalid request">>, retryAfter |-> NoHint]

\* a rate-limit rejection whose text also mentions a timeout
ThrottledTimeoutErr == [msg |-> <<"TooManyRequests (429)", "timeout">>, retryAfter |-> NoHint]

\* the raw failures one attempt can end with
RawErrors ==
    {ThrottledErr(h) : h \in {NoHint} \cup (0..MaxRetryAfter)}
        \cup {TimeoutErr, UnavailableErr, OtherErr, ThrottledTimeoutErr}

(* --------------------------- Error Classifier ------------------------- *)

IsRateLimited_PrefixOnly(msg) == Len(msg) > 0 /\ msg[1] = "TooManyRequests (429)"

\* the rate-limit signal the handler looks for in the error text
IsRateLimited(msg) == Contains(msg, "TooManyRequests (429)")

\* the timeout signal the handler looks for in the error text
IsTimeout(msg) == Contains(msg, "timeout")

IsUnavailable(msg) == Contains(msg, "no hosts available in the pool")

\* classify(rawError): the rules in priority order, Other by default
classify(err) ==
    IF IsRateLimited(err.msg) THEN "Throttled"
    ELSE IF IsTimeout(err.msg) THEN "Timeout"
    ELSE IF IsUnavailable(err.msg) THEN "Unavailable"
    ELSE "Other"

(* ----------------------------- Retry Policy --------------------------- *)

BaseDelay == 1

MaxDelay == 2

\* exponential backoff base, capped at the ceiling
Backoff(attemptIndex) == Min(BaseDelay * Pow2(attemptIndex), MaxDelay)

\* backoff plus a jitter drawn from [0, base)
BackoffDelays(attemptIndex) ==
    {Backoff(attemptIndex) + j : j \in 0..(Backoff(attemptIndex) - 1)}

Stop == [shouldRetry |-> FALSE, delay |-> 0]

decide_RetryOther(policy, kind, attemptIndex, isIdempotent, err) ==
    IF attemptIndex >= policy.maxRetries THEN {Stop}
    ELSE {[shouldRetry |-> TRUE, delay |-> d] : d \in BackoffDelays(attemptIndex)}

decide_JitterOnHint(policy, kind, attemptIndex, isIdempotent, err) ==
    IF attemptIndex >= policy.maxRetries THEN {Stop}
    ELSE IF kind = "Throttled" /\ err.retryAfter # NoHint
        THEN {[shouldRetry |-> TRUE, delay |-> err.retryAfter + Backoff(attemptIndex)]}
    ELSE IF kind \in {"Throttled", "Unavailable"} \/ (kind = "Timeout" /\ isIdempotent)
        THEN {[shouldRetry |-> TRUE, delay |-> d] : d \in BackoffDelays(attemptIndex)}
    ELSE {Stop}

\* decide(kind, attemptIndex, operation): the decisions the policy can return
\* (a set, because of the jitter term)
decide(policy, kind, attemptIndex, isIdempotent, err) ==
    IF attemptIndex >= policy.maxRetries THEN {Stop}
    ELSE IF kind = "Throttled" THEN
        IF err.retryAfter # NoHint
        THEN {[shouldRetry |-> TRUE, delay |-> err.retryAfter]}
        ELSE {[shouldRetry |-> TRUE, delay |-> d] : d \in BackoffDelays(attemptIndex)}
    ELSE IF kind = "Timeout" THEN
        IF isIdempotent
        THEN {[shouldRetry |-> TRUE, delay |-> d] : d \in BackoffDelays(attemptIndex)}
        ELSE {Stop}
    ELSE IF kind = "Unavailable"
        THEN {[shouldRetry |-> TRUE, delay |-> d] : d \in BackoffDelays(attemptIndex)}
    ELSE {Stop}

(* ---------------------- OrderInsertErrorLogger ------------------------ *)

\* a log line that prints no attempt number
NoAttempt == 0 - 1

NoObserver == [attached |-> FALSE, orderID |-> 0]

QueryObserver_Detached(rid) == NoObserver

\* Add attaches OrderInsertErrorLogger{orderID: rid} to the query
QueryObserver(rid) == [attached |-> TRUE, orderID |-> rid]

ObserveQuery_NoteOnSuccess(l, attempt, err) ==
    (IF err # NoErr
     THEN <<[line |-> "Query error", orderID |-> l.orderID, err |-> err.msg, attempt |-> NoAttempt]>>
     ELSE <<>>)
        \o (IF attempt > 0
            THEN <<[line |-> "being retried", orderID |-> l.orderID, err |-> <<>>, attempt |-> attempt]>>
            ELSE <<>>)

\* ObserveQuery: the log lines one invocation writes
ObserveQuery(l, attempt, err) ==
    IF err # NoErr
    THEN <<[line |-> "Query error", orderID |-> l.orderID, err |-> err.msg, attempt |-> NoAttempt]>>
            \o (IF attempt > 0
                THEN <<[line |-> "being retried", orderID |-> l.orderID, err |-> <<>>, attempt |-> attempt]>>
                ELSE <<>>)
    ELSE <<>>

(* ------------------------------ Add: tail ----------------------------- *)

RespStatus_TimeoutFirst(err) ==
    IF err = NoErr THEN 200
    ELSE IF Contains(err.msg, "timeout") THEN 408
    ELSE IF Contains(err.msg, "TooManyRequests (429)") THEN 429
    ELSE 500

\* the response status Add ends with: 200 when Exec returned no error
RespStatus(err) ==
    IF err = NoErr THEN 200
    ELSE IF IsRateLimited(err.msg) THEN 429
    ELSE IF IsTimeout(err.msg) THEN 408
    ELSE 500

\* the query is built without a context, so the request's cancellation
\* never reaches the attempt loop
QueryContextDone(requestCancelled) == FALSE

(* ------------------------------- state -------------------------------- *)

\* request slots of the HTTP server
Ops == {1, 2}

\* the request followed by the single-operation specification
MainOps == {1}

UseRetryEnvValues == {"", "true", "false", "0", "yes"}

MaxRetriesEnvValues ==
    {<<>>, <<"-", "1">>, <<"x">>} \cup {Itoa(n) : n \in 0..MaxEnvRetries}

NoResult == [type |-> "None", kind |-> "None", rawError |-> NoErr, attemptsMade |-> 0]

VARIABLES
    phase,          \* "start", "serving" or "fatal" (log.Fatal in init)
    env,            \* USE_RETRY_POLICY and MAX_RETRIES as found in the environment
    useRetryPolicy, \* the package variable set by init
    numRetries,     \* the value init parses from MAX_RETRIES
    retryPolicy,    \* clusterConfig.RetryPolicy
    pc,             \* per request: "idle", "attempting", "sleeping", "done"
    idempotent,     \* per request: the operation's idempotency flag
    observer,       \* per request: the observer attached to the query
    index,          \* per request: index of the current attempt
    lastErr,        \* per request: raw error of the latest attempt
    delay,          \* per request: the delay being slept
    history,        \* per request: the outcome kind of each attempt issued
    observed,       \* per request: the attempt indices the observer was invoked with
    logLines,       \* per request: the log lines written for its order ID
    logFailed,      \* per request: a write of one of its log lines has failed
    result,         \* per request: the terminal result of execute
    status,         \* per request: the response status, 0 while unanswered
    reqCancelled    \* per request: the caller's cancellation signal has fired

vars ==
    <<phase, env, useRetryPolicy, numRetries, retryPolicy, pc, idempotent, observer, index,
      lastErr, delay, history, observed, logLines, logFailed, result, status, reqCancelled>>

config == <<phase, env, useRetryPolicy, numRetries, retryPolicy>>

CanRun_BehindSleepers(o) == \A p \in Ops \ {o} : pc[p] # "sleeping"

\* a request runs on its own execution path and waits for no other request:
\* neither Add nor the inter-attempt sleep holds anything the others need
CanRun(o) == TRUE

Init ==
    /\ phase = "start"
    /\ env \in [useRetry : UseRetryEnvValues, maxRetries : MaxRetriesEnvValues]
    /\ useRetryPolicy = FALSE
    /\ numRetries = 0
    /\ retryPolicy = NoRetryPolicy
    /\ pc = [o \in Ops |-> "idle"]
    /\ idempotent = [o \in Ops |-> FALSE]
    /\ observer = [o \in Ops |-> NoObserver]
    /\ index = [o \in Ops |-> 0]
    /\ lastErr = [o \in Ops |-> NoErr]
    /\ delay = [o \in Ops |-> 0]
    /\ history = [o \in Ops |-> <<>>]
    /\ observed = [o \in Ops |-> <<>>]
    /\ logLines = [o \in Ops |-> <<>>]
    /\ logFailed = [o \in Ops |-> FALSE]
    /\ result = [o \in Ops |-> NoResult]
    /\ status = [o \in Ops |-> 0]
    /\ reqCancelled = [o \in Ops |-> FALSE]

(* ------------------------------ init() -------------------------------- *)

\* init: parse the retry flag and, when it is on, MAX_RETRIES; install the policy;
\* log.Fatal on a value that does not parse
init ==
    /\ phase = "start"
    /\ LET flag == ParseBool(UseRetryEnvVar(env.useRetry))
           num  == Atoi(MaxRetriesEnvVar(env.maxRetries))
       IN  IF ~flag.ok \/ (flag.val /\ ~num.ok)
           THEN /\ phase' = "fatal"
                /\ useRetryPolicy' = flag.val
                /\ UNCHANGED <<numRetries, retryPolicy>>
           ELSE /\ phase' = "serving"
                /\ useRetryPolicy' = flag.val
                /\ numRetries' = (IF flag.val THEN num.val ELSE 0)
                /\ retryPolicy' = ClusterRetryPolicy(flag.val, IF flag.val THEN num.val ELSE 0)
    /\ UNCHANGED <<env, pc, idempotent, observer, index, lastErr, delay, history, observed,
                   logLines, logFailed, result, status, reqCancelled>>

(* ------------------------- Add and the attempt loop ------------------- *)

\* Add, up to Exec: a request arrives, the query is built with its observer
\* and the first attempt is about to be issued (Attempting(0))
Add(o) ==
    /\ phase = "serving"
    /\ pc[o] = "idle"
    /\ CanRun(o)
    /\ \E flag \in BOOLEAN : idempotent' = [idempotent EXCEPT ![o] = flag]
    /\ observer' = [observer EXCEPT ![o] = QueryObserver(o)]
    /\ pc' = [pc EXCEPT ![o] = "attempting"]
    /\ index' = [index EXCEPT ![o] = 0]
    /\ lastErr' = [lastErr EXCEPT ![o] = NoErr]
    /\ delay' = [delay EXCEPT ![o] = 0]
    /\ history' = [history EXCEPT ![o] = <<>>]
    /\ observed' = [observed EXCEPT ![o] = <<>>]
    /\ logLines' = [logLines EXCEPT ![o] = <<>>]
    /\ logFailed' = [logFailed EXCEPT ![o] = FALSE]
    /\ result' = [result EXCEPT ![o] = NoResult]
    /\ status' = [status EXCEPT ![o] = 0]
    /\ reqCancelled' = [reqCancelled EXCEPT ![o] = FALSE]
    /\ UNCHANGED config

\* the observer hook of one attempt; writeOK tells whether the log's writer
\* accepted the lines
Observe(o, err, writeOK) ==
    IF observer[o].attached
    THEN /\ observed' = [observed EXCEPT ![o] = Append(@, index[o])]
         /\ logLines' = [logLines EXCEPT ![o] = @ \o ObserveQuery(observer[o], index[o], err)]
         /\ logFailed' = [logFailed EXCEPT ![o] =
                            @ \/ (ObserveQuery(observer[o], index[o], err) # <<>> /\ ~writeOK)]
    ELSE UNCHANGED <<observed, logLines, logFailed>>

ObserverAborts_OnWriteFailure(l, attempt, err, writeOK) == l.attached /\ err # NoErr /\ ~writeOK

\* ObserveQuery returns nothing and log.Printf drops the writer's error: the
\* observer never makes the caller's flow stop
ObserverAborts(l, attempt, err, writeOK) == FALSE

Aborted(o) ==
    [type |-> "Aborted", kind |-> "Aborted", rawError |-> NoErr, attemptsMade |-> index[o] + 1]

Finish_Restart(o, res, err) ==
    /\ pc' = [pc EXCEPT ![o] = "idle"]
    /\ result' = [result EXCEPT ![o] = res]
    /\ status' = [status EXCEPT ![o] = RespStatus(err)]

\* Done(result): execute returns and Add writes the response
Finish(o, res, err) ==
    /\ pc' = [pc EXCEPT ![o] = "done"]
    /\ result' = [result EXCEPT ![o] = res]
    /\ status' = [status EXCEPT ![o] = RespStatus(err)]

RECURSIVE AttemptsOf(_)
\* the attempts issued so far by the requests of S
AttemptsOf(S) ==
    IF S = {} THEN 0
    ELSE LET p == CHOOSE q \in S : TRUE IN Len(history[p]) + AttemptsOf(S \ {p})

PolicyAttemptIndex_Shared(o) == index[o] + AttemptsOf(Ops \ {o})

\* the attempt count handed to the policy: the run's own index, passed as
\* an explicit parameter, never a counter kept by the shared policy
PolicyAttemptIndex(o) == index[o]

TerminalErrorOf_IndexAsCount(kind, err, attemptIndex) ==
    [type |-> "TerminalError", kind |-> kind, rawError |-> err, attemptsMade |-> attemptIndex]

\* TerminalError{kind, rawError, attemptsMade} of a run that stops at attemptIndex
TerminalErrorOf(kind, err, attemptIndex) ==
    [type |-> "TerminalError", kind |-> kind, rawError |-> err, attemptsMade |-> attemptIndex + 1]

Cancelled(o) ==
    [type |-> "Cancelled", kind |-> "Cancelled", rawError |-> NoErr, attemptsMade |-> Len(history[o])]

CancelledErr == [msg |-> <<"context canceled">>, retryAfter |-> NoHint]

\* Attempting(index): issue the operation once, observe the outcome, and
\* on failure classify it and consult the policy
Attempt(o) ==
    /\ pc[o] = "attempting"
    /\ CanRun(o)
    /\ IF QueryContextDone(reqCancelled[o])
       THEN /\ Finish(o, Cancelled(o), CancelledErr)
            /\ UNCHANGED <<lastErr, delay, history, observed, logLines, logFailed, index>>
       ELSE \E err \in RawErrors \cup {NoErr}, writeOK \in BOOLEAN :
            /\ lastErr' = [lastErr EXCEPT ![o] = err]
            /\ Observe(o, err, writeOK)
            /\ IF ObserverAborts(observer[o], index[o], err, writeOK)
               THEN /\ history' = [history EXCEPT ![o] = Append(@, "Aborted")]
                    /\ Finish(o, Aborted(o), err)
                    /\ UNCHANGED <<delay, index>>
               ELSE IF err = NoErr
               THEN /\ history' = [history EXCEPT ![o] = Append(@, "Success")]
                    /\ Finish(o, [type |-> "Success", kind |-> "None", rawError |-> NoErr,
                                  attemptsMade |-> index[o] + 1], NoErr)
                    /\ UNCHANGED <<delay, index>>
               ELSE LET kind == classify(err)
                        terminal == TerminalErrorOf(kind, err, index[o])
                    IN  /\ history' = [history EXCEPT ![o] = Append(@, kind)]
                        /\ IF ~retryPolicy.installed
                           THEN /\ Finish(o, terminal, err)
                                /\ UNCHANGED <<delay, index>>
                           ELSE \E d \in decide(retryPolicy, kind, PolicyAttemptIndex(o),
                                                 idempotent[o], err) :
                                IF d.shouldRetry
                                THEN /\ pc' = [pc EXCEPT ![o] = "sleeping"]
                                     /\ delay' = [delay EXCEPT ![o] = d.delay]
                                     /\ UNCHANGED <<result, status, index>>
                                ELSE /\ Finish(o, terminal, err)
                                     /\ UNCHANGED <<delay, index>>
    /\ UNCHANGED <<config, idempotent, observer, reqCancelled>>

\* the inter-attempt sleep ends: increment the index and re-enter Attempting
Wake(o) ==
    /\ pc[o] = "sleeping"
    /\ CanRun(o)
    /\ IF QueryContextDone(reqCancelled[o])
       THEN /\ Finish(o, Cancelled(o), CancelledErr)
            /\ UNCHANGED <<index, delay>>
       ELSE /\ pc' = [pc EXCEPT ![o] = "attempting"]
            /\ index' = [index EXCEPT ![o] = index[o] + 1]
            /\ delay' = [delay EXCEPT ![o] = 0]
            /\ UNCHANGED <<result, status>>
    /\ UNCHANGED <<config, idempotent, observer, lastErr, history, observed, logLines,
                   logFailed, reqCancelled>>

\* the caller gives up on a request in flight (its context is cancelled)
RequestCancel(o) ==
    /\ pc[o] \in {"attempting", "sleeping"}
    /\ ~reqCancelled[o]
    /\ reqCancelled' = [reqCancelled EXCEPT ![o] = TRUE]
    /\ UNCHANGED <<config, pc, idempotent, observer, index, lastErr, delay, history, observed,
                   logLines, logFailed, result, status>>

Next ==
    \/ init
    \/ \E o \in MainOps : Add(o)
    \/ \E o \in MainOps : Attempt(o)
    \/ \E o \in MainOps : Wake(o)
    \/ \E o \in MainOps : RequestCancel(o)

Spec == Init /\ [][Next]_vars

\* every attempt returns and every sleep ends
LiveSpec ==
    /\ Init
    /\ [][Next]_vars
    /\ \A o \in MainOps : WF_vars(Attempt(o)) /\ WF_vars(Wake(o))

(* ---------------------- the classifier on its own --------------------- *)

Fragments == {"TooManyRequests (429)", "timeout", "no hosts available in the pool", "invalid request"}

\* every error text of at most MaxMsgLen fragments
Messages == UNION {[1..n -> Fragments] : n \in 0..MaxMsgLen}

\* a failed attempt's raw error is about to be classified
InitClassify ==
    /\ phase = "serving"
    /\ env = [useRetry |-> "false", maxRetries |-> <<>>]
    /\ useRetryPolicy = FALSE
    /\ numRetries = 0
    /\ retryPolicy = NoRetryPolicy
    /\ pc = [o \in Ops |-> IF o \in MainOps THEN "classifying" ELSE "idle"]
    /\ idempotent = [o \in Ops |-> FALSE]
    /\ observer = [o \in Ops |-> NoObserver]
    /\ index = [o \in Ops |-> 0]
    /\ \E m \in Messages \ {<<>>}, h \in {NoHint, 0} :
            lastErr = [o \in Ops |-> IF o \in MainOps THEN [msg |-> m, retryAfter |-> h] ELSE NoErr]
    /\ delay = [o \in Ops |-> 0]
    /\ history = [o \in Ops |-> <<>>]
    /\ observed = [o \in Ops |-> <<>>]
    /\ logLines = [o \in Ops |-> <<>>]
    /\ logFailed = [o \in Ops |-> FALSE]
    /\ result = [o \in Ops |-> NoResult]
    /\ status = [o \in Ops |-> 0]
    /\ reqCancelled = [o \in Ops |-> FALSE]

\* classify the raw error and map it to the response status
ClassifyRawError(o) ==
    /\ pc[o] = "classifying"
    /\ pc' = [pc EXCEPT ![o] = "classified"]
    /\ history' = [history EXCEPT ![o] = <<classify(lastErr[o])>>]
    /\ status' = [status EXCEPT ![o] = RespStatus(lastErr[o])]
    /\ UNCHANGED <<config, idempotent, observer, index, lastErr, delay, observed, logLines,
                   logFailed, result, reqCancelled>>

NextClassify == \E o \in MainOps : ClassifyRawError(o)

SpecClassify == InitClassify /\ [][NextClassify]_vars

(* ------------------------ concurrent requests ------------------------- *)

\* two requests served at once by one session, policy and logger; the
\* configuration is fixed to one retry (or none) to keep the product small
InitConc ==
    /\ Init
    /\ env.useRetry \in {"", "false"}
    /\ env.maxRetries = <<"1">>

NextConc ==
    \/ init
    \/ \E o \in Ops : Add(o)
    \/ \E o \in Ops : Attempt(o)
    \/ \E o \in Ops : Wake(o)
    \/ \E o \in Ops : RequestCancel(o)

SpecConc == InitConc /\ [][NextConc]_vars

(* ------------------------------- claims ------------------------------- *)

AllIn(seq, S) == \A i \in 1..Len(seq) : seq[i] \in S

TerminalError(o, kind) ==
    /\ result[o].type = "TerminalError"
    /\ result[o].kind = kind
    /\ result[o].rawError = lastErr[o]

\* the kinds retried locally for request o
Transient(o) ==
    {"Throttled", "Unavailable"} \cup (IF idempotent[o] THEN {"Timeout"} ELSE {})

\* C1: with the retry flag on and MAX_RETRIES = N >= 0, a request whose every
\* attempt is Throttled never goes past N + 1 attempts, and once it has ended
\* it has made exactly N + 1 attempts and its result is a Throttled terminal
\* error with attemptsMade = N + 1.
C1_ThrottledExhaustsCap ==
    \A o \in Ops :
        (phase = "serving" /\ useRetryPolicy /\ numRetries >= 0
            /\ history[o] # <<>> /\ AllIn(history[o], {"Throttled"}))
        => /\ Len(history[o]) <= numRetries + 1
           /\ pc[o] = "done" =>
                /\ Len(history[o]) = numRetries + 1
                /\ TerminalError(o, "Throttled")
                /\ result[o].attemptsMade = numRetries + 1

C1_Witness ==
    \E o \in Ops :
        /\ useRetryPolicy /\ numRetries = 2 /\ pc[o] = "done"
        /\ history[o] = <<"Throttled", "Throttled", "Throttled">>
        /\ result[o].attemptsMade = 3

\* C2: a non-idempotent request whose attempt 0 ends in Timeout is over after
\* that one attempt with a Timeout terminal error, whatever MAX_RETRIES is;
\* an idempotent request with the retry flag on whose attempt 0 ends in
\* Timeout is retried, and if all its attempts time out it ends only at the cap.
C2_TimeoutIdempotency ==
    \A o \in Ops :
        /\ (history[o] # <<>> /\ history[o][1] = "Timeout" /\ ~idempotent[o])
            => /\ pc[o] = "done"
               /\ Len(history[o]) = 1
               /\ TerminalError(o, "Timeout")
               /\ result[o].attemptsMade = 1
        /\ (useRetryPolicy /\ idempotent[o] /\ pc[o] = "done" /\ history[o] # <<>>
                /\ AllIn(history[o], {"Timeout"}))
            => /\ Len(history[o]) - 1 >= numRetries
               /\ TerminalError(o, "Timeout")

C2_Witness ==
    \E o \in Ops :
        /\ numRetries = 5 /\ useRetryPolicy /\ ~idempotent[o] /\ pc[o] = "done"
        /\ history[o] = <<"Timeout">> /\ observed[o] = <<0>>

\* C3: an attempt that fails with an error classified Other is the last
\* attempt of its request, at every attempt index and for every MAX_RETRIES,
\* and that error is the terminal error.
C3_OtherNeverRetried ==
    \A o \in Ops : \A i \in 1..Len(history[o]) :
        history[o][i] = "Other"
            => /\ i = Len(history[o])
               /\ pc[o] = "done"
               /\ TerminalError(o, "Other")
               /\ result[o].attemptsMade = i

C3_Witness ==
    \E o \in Ops :
        /\ pc[o] = "done" /\ numRetries = 5
        /\ history[o] = <<"Throttled", "Unavailable", "Other">>

\* C4, as stated: with the policy installed no request issues more than
\* maxRetries + 1 attempts, and with maxRetries = 0 a finished request has
\* made exactly one attempt.
C4_CapIsAbsolute ==
    \A o \in Ops :
        (phase = "serving" /\ retryPolicy.installed)
        => /\ Len(history[o]) <= retryPolicy.maxRetries + 1
           /\ (retryPolicy.maxRetries = 0 /\ pc[o] = "done") => Len(history[o]) = 1

\* C5: with the retry flag off a request makes exactly one attempt whatever
\* the error kind: it never sleeps, and the failure of attempt 0 (Throttled
\* included) is its terminal error.
C5_FlagOffSingleAttempt ==
    \A o \in Ops :
        (phase = "serving" /\ ~useRetryPolicy)
        => /\ pc[o] # "sleeping"
           /\ Len(history[o]) <= 1
           /\ Len(history[o]) = 1 =>
                /\ pc[o] = "done"
                /\ result[o].attemptsMade = 1
                /\ history[o][1] # "Success" => TerminalError(o, history[o][1])

C5_Witness ==
    \E o \in Ops :
        /\ ~useRetryPolicy /\ phase = "serving" /\ pc[o] = "done"
        /\ history[o] = <<"Throttled">> /\ result[o].type = "TerminalError"

\* C6: a request is answered once, when it is done, and the status follows
\* from the terminal outcome alone: 200 on success, 429 on a Throttled
\* terminal error, 408 on a Timeout terminal error, 500 on any other.
C6_StatusOfTerminalOutcome ==
    \A o \in Ops :
        /\ pc[o] # "done" => status[o] = 0
        /\ pc[o] = "done" =>
            status[o] = (IF result[o].type = "Success" THEN 200
                         ELSE IF result[o].kind = "Throttled" THEN 429
                         ELSE IF result[o].kind = "Timeout" THEN 408
                         ELSE 500)

C6_Witness ==
    \E o \in Ops :
        /\ pc[o] = "done" /\ status[o] = 429
        /\ lastErr[o] = ThrottledTimeoutErr
        /\ history[o] = <<"Timeout", "Unavailable", "Throttled">>

\* C7: at every moment the observer has been invoked exactly once for each
\* attempt issued so far, the successful and the terminal attempt included,
\* with the indices 0, 1, 2, ... in order.
C7_ObserverOncePerAttempt ==
    \A o \in Ops :
        /\ Len(observed[o]) = Len(history[o])
        /\ \A i \in 1..Len(observed[o]) : observed[o][i] = i - 1

C7_Witness ==
    \E o \in Ops :
        /\ pc[o] = "done" /\ result[o].type = "Success"
        /\ history[o] = <<"Throttled", "Throttled", "Success">>
        /\ observed[o] = <<0, 1, 2>>

\* C8, as stated: once the caller's cancellation has fired for a request that
\* is sleeping between two attempts, the request issues no further attempt and
\* ends Cancelled.
C8_CancelDuringSleep ==
    [][\A o \in Ops :
        (reqCancelled[o] /\ pc[o] = "sleeping")
        => \/ pc'[o] = "sleeping"
           \/ (pc'[o] = "done" /\ result'[o].type = "Cancelled")]_vars

\* C9: with the retry flag on, a transient failure (Throttled, Unavailable,
\* Timeout of an idempotent request) is the terminal error only when the cap is
\* exhausted; a request that succeeds at attempt k after transient failures
\* only has k <= maxRetries, made exactly k + 1 attempts and ends in Success.
C9_TransientSurfacedOnlyAtCap ==
    \A o \in Ops :
        (phase = "serving" /\ useRetryPolicy /\ pc[o] = "done")
        => /\ (result[o].type = "TerminalError" /\ result[o].kind \in Transient(o))
                => Len(history[o]) - 1 >= numRetries
           /\ (\E k \in 0..(Len(history[o]) - 1) :
                    /\ history[o][k + 1] = "Success"
                    /\ AllIn(SubSeq(history[o], 1, k), Transient(o)))
                => /\ result[o].type = "Success"
                   /\ history[o][Len(history[o])] = "Success"
                   /\ result[o].attemptsMade = Len(history[o])
                   /\ Len(history[o]) - 1 <= IF numRetries >= 0 THEN numRetries ELSE 0

C9_Witness ==
    \E o \in Ops :
        /\ numRetries = 2 /\ useRetryPolicy /\ idempotent[o] /\ pc[o] = "done"
        /\ history[o] = <<"Throttled", "Throttled", "Success">>
        /\ result[o].type = "Success" /\ result[o].attemptsMade = 3

\* C10: every delay the policy returns is >= 0, and the delay slept after a
\* Throttled error that carries a server-suggested interval is that interval.
C10_DelayNonNegativeAndHintExact ==
    \A o \in Ops :
        /\ delay[o] >= 0
        /\ \A k \in {"Throttled", "Timeout", "Unavailable", "Other"} :
                \A d \in decide(retryPolicy, k, index[o], idempotent[o], lastErr[o]) :
                    d.delay >= 0
        /\ (pc[o] = "sleeping" /\ classify(lastErr[o]) = "Throttled"
                /\ lastErr[o].retryAfter # NoHint)
            => delay[o] = lastErr[o].retryAfter

C10_Witness ==
    \E o \in Ops :
        /\ pc[o] = "sleeping" /\ index[o] = 1
        /\ lastErr[o] = ThrottledErr(MaxRetryAfter) /\ delay[o] = MaxRetryAfter

\* C11: while a request is sleeping between two attempts, every other
\* request can still take its next step: start, issue its attempt (and end
\* with it), or end its own sleep.
C11_SleepSuspendsOnlyItsOwner ==
    \A a \in Ops : \A b \in Ops \ {a} :
        pc[a] = "sleeping"
        => /\ (phase = "serving" /\ pc[b] = "idle") => ENABLED Add(b)
           /\ pc[b] = "attempting" => ENABLED (Attempt(b) /\ pc'[b] = "done")
           /\ pc[b] = "sleeping" => ENABLED Wake(b)

C11_Witness ==
    \E a \in Ops : \E b \in Ops \ {a} :
        /\ pc[a] = "sleeping" /\ index[a] = 0
        /\ pc[b] = "done" /\ Len(history[b]) = 2 /\ result[b].type = "Success"

\* C12: a terminal error is returned only by a finished run; it carries the
\* kind and the raw error of the run's last attempt, and attemptsMade is the
\* number of attempts the run issued, which is also the number of observer
\* invocations.
C12_TerminalErrorCarriesKindAndCount ==
    \A o \in Ops :
        result[o].type = "TerminalError"
        => /\ pc[o] = "done"
           /\ history[o] # <<>>
           /\ result[o].kind = history[o][Len(history[o])]
           /\ result[o].kind = classify(lastErr[o])
           /\ result[o].rawError = lastErr[o]
           /\ result[o].attemptsMade = Len(history[o])
           /\ result[o].attemptsMade = Len(observed[o])

C12_Witness ==
    \E o \in Ops :
        /\ pc[o] = "done" /\ result[o].type = "TerminalError"
        /\ history[o] = <<"Throttled", "Timeout", "Unavailable">>
        /\ result[o].kind = "Unavailable" /\ result[o].attemptsMade = 3
        /\ observed[o] = <<0, 1, 2>>

\* the positions of request o's log lines of one sort
LinesOf(o, sort) == {n \in 1..Len(logLines[o]) : logLines[o][n].line = sort}

\* the indices of request o's failed attempts
FailedAttempts(o) == {i \in 0..(Len(history[o]) - 1) : history[o][i + 1] # "Success"}

\* C13, as stated: every observer invocation leaves a log record with the
\* order ID and the attempt index, one with the error detail when the attempt
\* failed, and a retried-attempt note whenever the attempt index is > 0.
C13_LogsEveryInvocation ==
    \A o \in Ops : \A k \in 1..Len(observed[o]) :
        LET i == observed[o][k]
        IN  /\ \E n \in 1..Len(logLines[o]) :
                    logLines[o][n].orderID = observer[o].orderID /\ logLines[o][n].attempt = i
            /\ history[o][k] # "Success" =>
                    \E n \in LinesOf(o, "Query error") : logLines[o][n].err # <<>>
            /\ i > 0 => \E n \in LinesOf(o, "being retried") : logLines[o][n].attempt = i

\* C13, amended: the observer logs failed attempts only.  Each failed attempt
\* leaves one record with the order ID and the error detail and no attempt
\* index, followed, when its index is > 0, by one retried-attempt note with
\* the order ID and that index; a successful attempt leaves nothing.
C13_LogsFailedAttemptsOnly ==
    \A o \in Ops :
        /\ \A n \in 1..Len(logLines[o]) :
                /\ logLines[o][n].orderID = observer[o].orderID
                /\ logLines[o][n].line \in {"Query error", "being retried"}
        /\ Cardinality(LinesOf(o, "Query error")) = Cardinality(FailedAttempts(o))
        /\ \A n \in LinesOf(o, "Query error") :
                logLines[o][n].err # <<>> /\ logLines[o][n].attempt = NoAttempt
        /\ {logLines[o][n].attempt : n \in LinesOf(o, "being retried")}
                = {i \in FailedAttempts(o) : i > 0}
        /\ Cardinality(LinesOf(o, "being retried")) = Cardinality({i \in FailedAttempts(o) : i > 0})
        /\ \A n \in LinesOf(o, "being retried") :
                n > 1 /\ logLines[o][n - 1].line = "Query error"
        /\ (history[o] # <<>> /\ lastErr[o] # NoErr)
            => \E n \in LinesOf(o, "Query error") :
                    /\ logLines[o][n].err = lastErr[o].msg
                    /\ \A m \in LinesOf(o, "Query error") : m <= n

C13_Witness ==
    \E o \in Ops :
        /\ pc[o] = "done" /\ observed[o] = <<0, 1, 2>>
        /\ history[o] = <<"Throttled", "Timeout", "Success">>
        /\ Len(logLines[o]) = 3
        /\ logLines[o][3].line = "being retried" /\ logLines[o][3].attempt = 1

\* C14: a step in which the observer is invoked changes, besides the log,
\* only what the attempt itself decides: the run is never aborted, and its
\* next state (ended in Success, ended in the terminal error, or sleeping for
\* a delay the policy returned) follows from the attempt's outcome, the policy
\* and the attempt index alone, also when the log write fails.
C14_ObserverNeverInfluences ==
    [][\A o \in Ops :
        observed'[o] # observed[o]
        => /\ UNCHANGED <<config, idempotent, observer, reqCancelled, index>>
           /\ Len(history'[o]) = Len(history[o]) + 1
           /\ result'[o].type # "Aborted"
           /\ LET err == lastErr'[o]
                  terminal == TerminalErrorOf(classify(err), err, index[o])
              IN  IF err = NoErr
                  THEN pc'[o] = "done" /\ result'[o].type = "Success"
                  ELSE IF ~retryPolicy.installed
                  THEN pc'[o] = "done" /\ result'[o] = terminal
                  ELSE \E d \in decide(retryPolicy, classify(err), index[o], idempotent[o], err) :
                        IF d.shouldRetry
                        THEN pc'[o] = "sleeping" /\ delay'[o] = d.delay /\ result'[o] = result[o]
                        ELSE pc'[o] = "done" /\ result'[o] = terminal]_vars

C14_Witness ==
    \E o \in Ops :
        /\ logFailed[o] /\ pc[o] = "done" /\ result[o].type = "Success"
        /\ history[o] = <<"Throttled", "Unavailable", "Success">>
        /\ observed[o] = <<0, 1, 2>>

\* C15: every raw failure gets exactly one of the four kinds: Throttled when
\* its text carries the rate-limit signal, also when it matches the timeout
\* rule too; Timeout when it matches the timeout rule only; Other when it
\* matches no rule; and the response status follows the same priority.
C15_ClassificationTotalWithPriority ==
    \A o \in Ops :
        pc[o] = "classified"
        => LET msg  == lastErr[o].msg
               kind == history[o][1]
               rate == \E i \in 1..Len(msg) : msg[i] = "TooManyRequests (429)"
               tmo  == \E i \in 1..Len(msg) : msg[i] = "timeout"
               una  == \E i \in 1..Len(msg) : msg[i] = "no hosts available in the pool"
           IN  /\ kind \in {"Throttled", "Timeout", "Unavailable", "Other"}
               /\ rate => (kind = "Throttled" /\ status[o] = 429)
               /\ (~rate /\ tmo) => (kind = "Timeout" /\ status[o] = 408)
               /\ (~rate /\ ~tmo /\ una) => (kind = "Unavailable" /\ status[o] = 500)
               /\ (~rate /\ ~tmo /\ ~una) => (kind = "Other" /\ status[o] = 500)

C15_Witness ==
    \E o \in Ops :
        /\ pc[o] = "classified"
        /\ lastErr[o].msg = <<"timeout", "TooManyRequests (429)">>
        /\ history[o] = <<"Throttled">> /\ status[o] = 429

\* C16, as stated: the maxRetries of the installed policy is a non-negative
\* integer, and it is 5 when MAX_RETRIES is not set.
C16_MaxRetriesNonNegative ==
    (phase = "serving" /\ retryPolicy.installed)
    => /\ retryPolicy.maxRetries >= 0
       /\ env.maxRetries = <<>> => retryPolicy.maxRetries = 5

\* C17: with requests running concurrently, each request's attempt index
\* starts at 0 and counts its own attempts only, its result reports its own
\* attempts and its own last outcome, and its retry budget is its own: with
\* the retry flag on it gives up on a transient failure only after
\* maxRetries retries of its own, and never retries more than that.
C17_NoSharedRetryState ==
    \A o \in Ops :
        /\ pc[o] = "idle" => (index[o] = 0 /\ history[o] = <<>>)
        /\ pc[o] = "attempting" => index[o] = Len(history[o])
        /\ pc[o] \in {"sleeping", "done"} => index[o] = Len(history[o]) - 1
        /\ pc[o] = "done" =>
                /\ result[o].attemptsMade = Len(history[o])
                /\ result[o].rawError = lastErr[o]
                /\ result[o].type = "Success" <=> history[o][Len(history[o])] = "Success"
        /\ (useRetryPolicy /\ pc[o] = "done" /\ result[o].type = "TerminalError"
                /\ result[o].kind \in Transient(o))
            => Len(history[o]) - 1 >= numRetries
        /\ (useRetryPolicy /\ pc[o] = "sleeping") => Len(history[o]) <= numRetries

C17_Witness ==
    \E a \in Ops : \E b \in Ops \ {a} :
        /\ numRetries = 1 /\ useRetryPolicy
        /\ pc[a] = "done" /\ history[a] = <<"Throttled", "Throttled">>
        /\ result[a].type = "TerminalError" /\ result[a].attemptsMade = 2
        /\ pc[b] = "done" /\ history[b] = <<"Unavailable", "Success">>
        /\ result[b].type = "Success" /\ result[b].attemptsMade = 2

\* C18: a run that has entered Attempting(0) eventually reaches
\* Done(Success) or Done(TerminalError), for every outcome sequence and every
\* MAX_RETRIES, given that attempts return and sleeps end; and a finished run
\* stays finished with the same result.
C18_EveryRunTerminates ==
    /\ \A o \in Ops :
            (pc[o] = "attempting" /\ index[o] = 0)
                ~> (pc[o] = "done" /\ result[o].type \in {"Success", "TerminalError"})
    /\ [][\A o \in Ops : pc[o] = "done" => (pc'[o] = "done" /\ result'[o] = result[o])]_vars

C18_Witness ==
    \E o \in Ops :
        /\ env.maxRetries = <<>> /\ pc[o] = "done" /\ Len(history[o]) = 6
        /\ result[o].type = "TerminalError" /\ result[o].attemptsMade = 6

====
